---- MODULE Spec2Model ----
(***************************************************************************)
(* AIODesa: a dataclass-to-SQLite mapping layer.  The model follows        *)
(* src/aiodesa/Database.py (class Db) together with the schema builder of  *)
(* src/aiodesa/utils/tables/table.py and the type mapper of                *)
(* src/aiodesa/utils/types/types.py, the two modules Database.py imports.  *)
(*                                                                         *)
(* Python values are written as strings: "alice", "5", "None".  A record   *)
(* instance and a table row are tuples of values in field order, an        *)
(* exception is the name of its class.  Every handler of Db is one action: *)
(* it runs from its first line to its return or to the exception that      *)
(* leaves it.                                                              *)
(*                                                                         *)
(* Spec is the facade with explicit connect and close and the four bound   *)
(* operations; ScopeSpec is the facade used as an async context manager;   *)
(* TypesSpec applies the type mappers of src/aiodesa/utils/util_types.py   *)
(* and of src/aiodesa/utils/types/types.py to                              *)
(* one input; KeysSpec applies the set_key decorator of                    *)
(* src/aiodesa/utils/table.py to one class; NamesSpec is the facade with a *)
(* record type whose table name holds a space; TxnSpec takes insert,       *)
(* update and delete one await at a time.                                  *)
(***************************************************************************)
EXTENDS Integers, Sequences, FiniteSets, TLC

VARIABLES
    conn,      \* Db.conn: None, or the state of the connection object it holds
    tables,    \* Db.tables: table name -> name of the registered record type
    db,        \* the database file: table name -> [cols, primary_key, unique_key, rows]
    issued,    \* statements the last handler sent to the connection, in order
    outcome,   \* the last handler: what was called and how it ended
    origin,    \* the method that opened the open connection Db.conn holds, or None
    live,      \* connections still open that Db.conn no longer holds: for each,
               \* <<the method that opened it, the method that replaced it>>
    mapped,    \* the input of py_to_sql_type and what the call gave: ret from
               \* utils/util_types.py, types_ret from utils/types/types.py
    keyed,     \* utils/table.py: the class set_key decorates and the keys given so far
    txn        \* the transaction of the connection Db.conn holds: where each
               \* invocation of insert, update or delete stands, the changes
               \* executed and not committed, and the changes made durable

vars == <<conn, tables, db, issued, outcome, origin, live, mapped, keyed, txn>>

\* what the handlers of Db, taken as one step each, leave alone
aside == <<mapped, keyed, txn>>

\* what the facade works on
facade == <<conn, tables, db, issued, outcome, origin, live>>

----------------------------------------------------------------------------
(* Bounds *)

\* rows the database holds at most (insert is not offered on a full database)
MaxRows == 2

\* calls of the type mapper on one input
MaxCalls == 2

\* key annotations one class is given at most, over all its set_key decorators
MaxKeys == 3

\* invocations of insert, update and delete that run on one connection
MaxInvocations == 3

----------------------------------------------------------------------------
(* Python values *)

None == "None"
\* dataclasses.MISSING: the field has no default
MISSING == "MISSING"
\* hasattr(cls, ...) is False
NoAttr == "<no attribute>"
\* a whole row tuple that was passed where one value is expected
RowTuple == "<row>"

StrVals == {"alice", "users"}
IntVals == {"5", "9"}
Values == StrVals \cup IntVals

\* a declared type: a plain class, or a union (X | Y) with its __args__
Plain(t) == [union |-> FALSE, args |-> <<t>>]
Union(a, b) == [union |-> TRUE, args |-> <<a, b>>]

\* values a caller passes for a field of the declared type
Domain(type) ==
    LET of(t) == CASE t = "str" -> StrVals
                   [] t = "int" -> IntVals
                   [] t = "NoneType" -> {None}
                   [] OTHER -> {}
    IN UNION {of(type.args[i]) : i \in 1..Len(type.args)}

----------------------------------------------------------------------------
(* Record types *)

\* @set_key(PrimaryKey("name"), UniqueKey("value")) @dataclass class Users
Users ==
    [cls |-> "Users",
     fields |-> <<"name", "value", "table_name">>,
     types |-> <<Plain("str"), Union("int", "NoneType"), Plain("str")>>,
     defaults |-> <<MISSING, None, "users">>,
     primary_key |-> "name",
     unique_key |-> "value"]

\* a record type with a username column that is not its first field
Accounts ==
    [cls |-> "Accounts",
     fields |-> <<"email", "username", "table_name">>,
     types |-> <<Plain("str"), Union("str", "NoneType"), Plain("str")>>,
     defaults |-> <<MISSING, None, "accounts">>,
     primary_key |-> "email",
     unique_key |-> NoAttr]

\* a record type with a required field of a type outside the supported set
Signals ==
    [cls |-> "Signals",
     fields |-> <<"id", "z", "table_name">>,
     types |-> <<Union("int", "NoneType"), Plain("complex"), Plain("str")>>,
     defaults |-> <<MISSING, MISSING, "signals">>,
     primary_key |-> "id",
     unique_key |-> NoAttr]

\* a record type with an optional field of a type outside the supported set
Probes ==
    [cls |-> "Probes",
     fields |-> <<"id", "z", "table_name">>,
     types |-> <<Union("int", "NoneType"), Union("complex", "NoneType"), Plain("str")>>,
     defaults |-> <<MISSING, None, "probes">>,
     primary_key |-> "id",
     unique_key |-> NoAttr]

\* @dataclass class Sample: a record type whose table name holds a space and
\* that declares no key
Sample ==
    [cls |-> "Sample",
     fields |-> <<"username", "credits", "table_name">>,
     types |-> <<Plain("str"), Plain("int"), Plain("str")>>,
     defaults |-> <<MISSING, MISSING, "table 1">>,
     primary_key |-> NoAttr,
     unique_key |-> NoAttr]

\* the record types the bound operations are built for
Classes == {"Users", "Accounts"}

\* every record type that is declared
Declared == Classes \cup {"Signals", "Probes"}

Cls(c) ==
    CASE c = "Users" -> Users
      [] c = "Accounts" -> Accounts
      [] c = "Signals" -> Signals
      [] c = "Probes" -> Probes
      [] c = "Sample" -> Sample

\* position of a field in fields(cls); 0 when the class has no such field
FieldIndex(cls, f) ==
    IF \E i \in 1..Len(cls.fields) : cls.fields[i] = f
    THEN CHOOSE i \in 1..Len(cls.fields) : cls.fields[i] = f
    ELSE 0

\* cls.table_name, the class attribute the table_name default creates
ClassTableName(cls) == cls.defaults[FieldIndex(cls, "table_name")]

\* the columns of the record type: every annotated field but table_name
DataFields(cls) == SelectSeq(cls.fields, LAMBDA f : f # "table_name")

----------------------------------------------------------------------------
(* Results of a call: what it returns, or the exception that leaves it *)

Ret(v) == [raised |-> None, value |-> v]
Raise(e) == [raised |-> e, value |-> <<>>]

----------------------------------------------------------------------------
(* The dataclass constructor, called with positional and keyword arguments *)

\* kwargs is a function from the keyword names given to their values
Construct(cls, args, kwargs) ==
    LET n == Len(cls.fields)
        given(i) == i <= Len(args) \/ cls.fields[i] \in DOMAIN kwargs
    IN  IF Len(args) > n
        THEN Raise("TypeError")    \* too many positional arguments
        ELSE IF \E k \in DOMAIN kwargs : FieldIndex(cls, k) = 0
        THEN Raise("TypeError")    \* unexpected keyword argument
        ELSE IF \E i \in 1..Len(args) : cls.fields[i] \in DOMAIN kwargs
        THEN Raise("TypeError")    \* multiple values for an argument
        ELSE IF \E i \in 1..n : ~given(i) /\ cls.defaults[i] = MISSING
        THEN Raise("TypeError")    \* missing required argument
        ELSE Ret([i \in 1..n |->
                    IF i <= Len(args) THEN args[i]
                    ELSE IF cls.fields[i] \in DOMAIN kwargs THEN kwargs[cls.fields[i]]
                    ELSE cls.defaults[i]])

\* getattr(instance, f) for an instance built by Construct
GetAttr(cls, inst, f) == inst[FieldIndex(cls, f)]

----------------------------------------------------------------------------
(* utils/types/types.py *)

\* The match statement sits inside the isinstance(data, UnionType) branch: a
\* plain class skips it and the function returns None.  tmp[i]() is None only
\* for NoneType.  The sequence pattern of the TEXT case and the None pattern
\* match no class, so every other class reaches the default case, where
\* data.__args__ exists only if data is still a union.
py_to_sql_type(data) ==
    IF ~data.union
    THEN Ret(None)
    ELSE LET tmp == data.args
             arm == IF Len(tmp) = 2
                    THEN IF tmp[1] = "NoneType" THEN tmp[2]
                         ELSE IF tmp[2] = "NoneType" THEN tmp[1]
                         ELSE "UnionType"
                    ELSE "UnionType"
         IN  CASE arm = "int" -> Ret("INT")
               [] arm = "str" -> Ret("VARCHAR")
               [] arm = "float" -> Ret("FLOAT")
               [] arm = "bool" -> Ret("BOOLEAN")
               [] arm = "UnionType" -> Raise("ValueError")
               [] OTHER -> Raise("AttributeError")

----------------------------------------------------------------------------
(* utils/util_types.py *)

\* a union of three arms
Union3(a, b, c) == [union |-> TRUE, args |-> <<a, b, c>>]

\* a mapper that tests with isinstance-like rules: bool, a subclass of int,
\* is taken by the int case
util_types_py_to_sql_type_subclass(data) ==
    LET tmp == data.args
        subject == IF ~data.union THEN tmp[1]
                   ELSE IF Len(tmp) # 2 THEN "UnionType"
                   ELSE IF tmp[1] = "NoneType" THEN tmp[2]
                   ELSE IF tmp[2] = "NoneType" THEN tmp[1]
                   ELSE "UnionType"
    IN  CASE subject \in {"int", "bool"} -> Ret("INT")
          [] subject = "str" -> Ret("VARCHAR")
          [] subject = "float" -> Ret("FLOAT")
          [] subject \in {"bytes", "bytearray", "list", "tuple", "set", "dict"} -> Ret("TEXT")
          [] subject = None -> Ret("NULL")
          [] OTHER -> Raise("ValueError")

\* Here the match statement follows the unwrapping of an optional union, so a
\* plain class reaches it too.  Its value patterns compare data with the
\* builtin classes and with None; whatever equals none of them, a union left
\* as it is included, reaches the default case.
util_types_py_to_sql_type(data) ==
    LET tmp == data.args
        subject == IF ~data.union THEN tmp[1]
                   ELSE IF Len(tmp) # 2 THEN "UnionType"
                   ELSE IF tmp[1] = "NoneType" THEN tmp[2]
                   ELSE IF tmp[2] = "NoneType" THEN tmp[1]
                   ELSE "UnionType"
    IN  CASE subject = "int" -> Ret("INT")
          [] subject = "str" -> Ret("VARCHAR")
          [] subject = "float" -> Ret("FLOAT")
          [] subject = "bool" -> Ret("BOOLEAN")
          [] subject \in {"bytes", "bytearray", "list", "tuple", "set", "dict"} -> Ret("TEXT")
          [] subject = None -> Ret("NULL")
          [] OTHER -> Raise("ValueError")

----------------------------------------------------------------------------
(* utils/table.py: key annotations *)

\* the NamedTuples PrimaryKey(column), UniqueKey(column), ForeignKey(key, table)
\* and a plain tuple of keys; each of them is a tuple
PrimaryKey(column) ==
    [kind |-> "PrimaryKey", column |-> column, key |-> None, table |-> None, elems |-> <<>>]
UniqueKey(column) ==
    [kind |-> "UniqueKey", column |-> column, key |-> None, table |-> None, elems |-> <<>>]
ForeignKey(key, table) ==
    [kind |-> "ForeignKey", column |-> None, key |-> key, table |-> table, elems |-> <<>>]
TupleOf(elems) ==
    [kind |-> "tuple", column |-> None, key |-> None, table |-> None, elems |-> elems]

\* getattr(cls, "foreign_keys", ())
foreign_keys_of(cls) == IF cls.foreign_keys = NoAttr THEN <<>> ELSE cls.foreign_keys

\* the body of the loop of set_key's decorator with hasattr left out: the last
\* PrimaryKey and the last UniqueKey win
apply_key_last_wins(cls, arg) ==
    IF arg.kind = "PrimaryKey"
    THEN [cls EXCEPT !.primary_key = arg.column]
    ELSE IF arg.kind = "UniqueKey"
    THEN [cls EXCEPT !.unique_key = arg.column]
    ELSE [cls EXCEPT !.foreign_keys = Append(foreign_keys_of(cls), arg)]

\* the body of the loop of set_key's decorator.  The isinstance tests run in
\* this order: PrimaryKey, UniqueKey, tuple, ForeignKey.  A ForeignKey is a
\* NamedTuple and so a tuple: the third test takes it, and the fourth branch,
\* which would add the key's two fields to foreign_keys, is never reached.
apply_key(cls, arg) ==
    IF arg.kind = "PrimaryKey"
    THEN IF cls.primary_key = NoAttr
         THEN [cls EXCEPT !.primary_key = arg.column]
         ELSE cls
    ELSE IF arg.kind = "UniqueKey"
    THEN IF cls.unique_key = NoAttr
         THEN [cls EXCEPT !.unique_key = arg.column]
         ELSE cls
    ELSE IF arg.kind \in {"tuple", "ForeignKey"}
    THEN IF ~\E i \in 1..Len(foreign_keys_of(cls)) :
                foreign_keys_of(cls)[i].kind \in {"PrimaryKey", "UniqueKey"}
         THEN [cls EXCEPT !.foreign_keys = Append(foreign_keys_of(cls), arg)]
         ELSE cls
    ELSE cls

\* set_key(args)(cls): the decorator goes through args in order
RECURSIVE set_key(_, _)
set_key(args, cls) ==
    IF args = <<>> THEN cls
    ELSE set_key(Tail(args), apply_key(cls, Head(args)))

----------------------------------------------------------------------------
(* utils/tables/table.py *)

\* name.replace(" ", "_") on the table names of this model
replace_spaces(name) == IF name = "table 1" THEN "table_1" ELSE name

\* The TableSchema: its table_name, and its data, the CREATE TABLE IF NOT
\* EXISTS statement, kept as the column entries and key clauses it lists.
make_schema(name, cls) ==
    LET cols == DataFields(cls)
        tok(i) == py_to_sql_type(cls.types[FieldIndex(cls, cols[i])])
        failing == {i \in 1..Len(cols) : tok(i).raised # None}
        first == CHOOSE i \in failing : \A j \in failing : i <= j
    IN  IF failing # {}
        THEN Raise(tok(first).raised)
        ELSE Ret([table_name |-> replace_spaces(name),
                  columns |-> [i \in 1..Len(cols) |-> <<cols[i], tok(i).value>>],
                  primary_key |-> cls.primary_key,
                  unique_key |-> cls.unique_key])

----------------------------------------------------------------------------
(* The database behind the connection.  A table keeps its rows in insertion *)
(* order; NULL is None; a comparison with NULL selects no row.              *)

Stmt(kind, table, cols, where, params) ==
    [kind |-> kind, table |-> table, cols |-> cols, where |-> where, params |-> params]

\* executing a statement: the exception or the rows fetched, the database after
\* it, and cursor.rowcount, the rows an INSERT, UPDATE or DELETE touched
Done(d, rows, n) == [raised |-> None, db |-> d, rows |-> rows, rowcount |-> n]
Fail(d, e) == [raised |-> e, db |-> d, rows |-> <<>>, rowcount |-> 0]

ColIndex(t, c) ==
    IF \E i \in 1..Len(t.cols) : t.cols[i] = c
    THEN CHOOSE i \in 1..Len(t.cols) : t.cols[i] = c
    ELSE 0

\* PRIMARY KEY (c) and UNIQUE (c): no two rows agree on a non-NULL value of c
Violates(t, rows) ==
    \E k \in {t.primary_key, t.unique_key} \ {NoAttr} :
        \E a, b \in 1..Len(rows) :
            /\ a < b
            /\ rows[a][ColIndex(t, k)] # None
            /\ rows[a][ColIndex(t, k)] = rows[b][ColIndex(t, k)]

\* a row satisfies WHERE c = ? bound to v
Matches(t, row, c, v) == v # None /\ row[ColIndex(t, c)] = v

\* a CREATE TABLE without IF NOT EXISTS: refused when the table exists
ExecCreate_plain(d, schema) ==
    IF schema.table_name \in DOMAIN d \/ Len(schema.columns) = 0
    THEN Fail(d, "OperationalError")
    ELSE Done((schema.table_name :>
                  [cols |-> [i \in 1..Len(schema.columns) |-> schema.columns[i][1]],
                   primary_key |-> schema.primary_key,
                   unique_key |-> schema.unique_key,
                   rows |-> <<>>]) @@ d, <<>>, 0)

\* conn.executescript(named_data.data): CREATE TABLE IF NOT EXISTS
ExecCreate(d, schema) ==
    IF schema.table_name \in DOMAIN d
    THEN Done(d, <<>>, 0)
    ELSE IF Len(schema.columns) = 0
    THEN Fail(d, "OperationalError")
    ELSE Done((schema.table_name :>
                  [cols |-> [i \in 1..Len(schema.columns) |-> schema.columns[i][1]],
                   primary_key |-> schema.primary_key,
                   unique_key |-> schema.unique_key,
                   rows |-> <<>>]) @@ d, <<>>, 0)

\* INSERT INTO table (cols) VALUES (?, ...)
ExecInsert(d, s) ==
    IF s.table \notin DOMAIN d \/ Len(s.cols) = 0
    THEN Fail(d, "OperationalError")
    ELSE LET t == d[s.table]
             at(c) == CHOOSE i \in 1..Len(s.cols) : s.cols[i] = c
             row == [i \in 1..Len(t.cols) |->
                        IF \E j \in 1..Len(s.cols) : s.cols[j] = t.cols[i]
                        THEN s.params[at(t.cols[i])]
                        ELSE None]
         IN  IF \E j \in 1..Len(s.cols) : ColIndex(t, s.cols[j]) = 0
             THEN Fail(d, "OperationalError")
             ELSE IF Violates(t, Append(t.rows, row))
             THEN Fail(d, "IntegrityError")
             ELSE Done([d EXCEPT ![s.table].rows = Append(t.rows, row)], <<>>, 1)

\* UPDATE table SET c = ?, ... WHERE where = ?
ExecUpdate(d, s) ==
    IF s.table \notin DOMAIN d \/ Len(s.cols) = 0
    THEN Fail(d, "OperationalError")
    ELSE LET t == d[s.table]
             v == s.params[Len(s.params)]
             at(c) == CHOOSE i \in 1..Len(s.cols) : s.cols[i] = c
             set(row) == [i \in 1..Len(t.cols) |->
                            IF \E j \in 1..Len(s.cols) : s.cols[j] = t.cols[i]
                            THEN s.params[at(t.cols[i])]
                            ELSE row[i]]
             rows == [r \in 1..Len(t.rows) |->
                        IF Matches(t, t.rows[r], s.where, v)
                        THEN set(t.rows[r])
                        ELSE t.rows[r]]
         IN  IF ColIndex(t, s.where) = 0
                \/ \E j \in 1..Len(s.cols) : ColIndex(t, s.cols[j]) = 0
             THEN Fail(d, "OperationalError")
             ELSE IF Violates(t, rows)
             THEN Fail(d, "IntegrityError")
             ELSE Done([d EXCEPT ![s.table].rows = rows], <<>>,
                       Len(SelectSeq(t.rows, LAMBDA row : Matches(t, row, s.where, v))))

\* SELECT * FROM table WHERE where = ?
ExecSelect(d, s) ==
    IF s.table \notin DOMAIN d
    THEN Fail(d, "OperationalError")
    ELSE LET t == d[s.table]
         IN  IF ColIndex(t, s.where) = 0
             THEN Fail(d, "OperationalError")
             ELSE Done(d, SelectSeq(t.rows, LAMBDA row : Matches(t, row, s.where, s.params[1])), 0)

\* DELETE FROM table WHERE where = ?
ExecDelete(d, s) ==
    IF s.table \notin DOMAIN d
    THEN Fail(d, "OperationalError")
    ELSE LET t == d[s.table]
         IN  IF ColIndex(t, s.where) = 0
             THEN Fail(d, "OperationalError")
             ELSE Done([d EXCEPT ![s.table].rows =
                           SelectSeq(t.rows, LAMBDA row : ~Matches(t, row, s.where, s.params[1]))],
                       <<>>,
                       Len(SelectSeq(t.rows, LAMBDA row : Matches(t, row, s.where, s.params[1]))))

\* self.conn.execute(sql, params): None has no execute, a closed connection
\* refuses, an open one runs the statement
Execute(c, d, s) ==
    IF c = None THEN Fail(d, "AttributeError")
    ELSE IF c = "closed" THEN Fail(d, "ValueError")
    ELSE CASE s.kind = "INSERT" -> ExecInsert(d, s)
           [] s.kind = "UPDATE" -> ExecUpdate(d, s)
           [] s.kind = "SELECT" -> ExecSelect(d, s)
           [] s.kind = "DELETE" -> ExecDelete(d, s)

----------------------------------------------------------------------------
(* Calls *)

\* no positional argument was given
NoArg == "<no argument>"

\* what a handler leaves behind: the call (op, the record type or "tuple" it
\* was given, the builder's column_identifier, the first positional argument),
\* the exception that left it, the value it returned, for insert the record
\* instance it built, and the rows its statement inserted, updated or deleted
Outcome(op, cls, ci, args, raised, ret, record, rowcount) ==
    [op |-> op, cls |-> cls, ci |-> ci,
     arg0 |-> IF args = <<>> THEN NoArg ELSE args[1],
     raised |-> raised, ret |-> ret, record |-> record, rowcount |-> rowcount]

NoKwargs == [k \in {} |-> None]

FieldSet(cls) == {DataFields(cls)[i] : i \in 1..Len(DataFields(cls))}

\* keyword arguments for columns of cls not given positionally, each of its
\* declared type
Kwargs(cls, args) ==
    UNION {{kw \in [S -> Values \cup {None}] :
               \A k \in S : kw[k] \in Domain(cls.types[FieldIndex(cls, k)])} :
           S \in SUBSET {f \in FieldSet(cls) : FieldIndex(cls, f) > Len(args)}}

\* the keywords of a call in the order they were written (field order)
KwOrder(cls, kwargs) == SelectSeq(cls.fields, LAMBDA f : f \in DOMAIN kwargs)

\* insert is called with at most the first field positional, of its declared type
InsertArgs(cls) == {<<>>} \cup {<<x>> : x \in Domain(cls.types[1])}

\* the builders of update, find and delete are given no column_identifier, or
\* a column other than the primary key
ColumnIdentifiers(cls) == {None} \cup (FieldSet(cls) \ {cls.primary_key})

\* update, find and delete are called with at most one positional argument,
\* a value of the identifying column
IdentArgs(cls, ci) ==
    {<<>>} \cup {<<x>> : x \in Domain(cls.types[FieldIndex(cls,
                                   IF ci # None THEN ci ELSE cls.primary_key)]) \ {None}}

\* what registration is called with: one record type, or a tuple of them
Schemas ==
    {[tuple |-> FALSE, elems |-> <<c>>] : c \in Classes}
    \cup {[tuple |-> TRUE, elems |-> <<"Users", "Accounts">>],
          [tuple |-> TRUE, elems |-> <<"Accounts", "Users">>]}

----------------------------------------------------------------------------
(* Db: registration *)

\* what a handler did: the exception that left it (or None), the registry and
\* the database after it, the statements it sent to the connection, the value
\* it returned, the record instance it built and the rowcount of its cursor
Effect(raised, tb, d, log, ret, record) ==
    [raised |-> raised, tables |-> tb, db |-> d, issued |-> log, ret |-> ret,
     record |-> record, rowcount |-> 0]

Counted(effect, n) == [effect EXCEPT !.rowcount = n]

CatalogQuery(name) == Stmt("SELECT", "sqlite_master", <<"name">>, "name", <<name>>)

\* the key clauses of the DDL, in the order make_schema appends them
key_clauses(schema) ==
    (IF schema.primary_key # NoAttr
     THEN <<(<<"PRIMARY KEY", schema.primary_key>>)>> ELSE <<>>)
    \o (IF schema.unique_key # NoAttr
        THEN <<(<<"UNIQUE", schema.unique_key>>)>> ELSE <<>>)

\* the script of a TableSchema as it is sent: its column entries, each
\* <<field name, type token>>, then its key clauses
CreateStmt(schema) ==
    Stmt("CREATE", schema.table_name, schema.columns, None, key_clauses(schema))

\* Db.table_exists: "True", "False", or None without a connection
table_exists(c, d, table_name) ==
    IF c = None THEN Ret(None)
    ELSE IF c = "closed" THEN Raise("ValueError")
    ELSE Ret(IF table_name \in DOMAIN d THEN "True" ELSE "False")

\* Db.create_table(named_data, name)
create_table(c, tb, d, named_data, name) ==
    IF c = None
    THEN Effect(None, tb, d, <<>>, <<>>, <<>>)
    ELSE LET exists == table_exists(c, d, name)
         IN  IF exists.raised # None
             THEN Effect(exists.raised, tb, d, <<CatalogQuery(name)>>, <<>>, <<>>)
             ELSE IF exists.value = "True"
             THEN Effect(None, tb, d, <<CatalogQuery(name)>>, <<>>, <<>>)
             ELSE LET r == ExecCreate(d, named_data)
                  IN  Effect(r.raised, tb, r.db,
                             <<CatalogQuery(name), CreateStmt(named_data)>>, <<>>, <<>>)

\* the loop over the record types of a registration, in order: for the field
\* named table_name, make_schema(str(field.default), class) and then
\* create_table(schema_, field.name)
RECURSIVE register_each(_, _, _, _, _)
register_each(c, tb, d, elems, log) ==
    IF elems = <<>>
    THEN Effect(None, tb, d, log, <<>>, <<>>)
    ELSE LET cls == Cls(Head(elems))
             schema_ == make_schema(ClassTableName(cls), cls)
         IN  IF FieldIndex(cls, "table_name") = 0
             THEN register_each(c, tb, d, Tail(elems), log)
             ELSE IF schema_.raised # None
             THEN Effect(schema_.raised, tb, d, log, <<>>, <<>>)
             ELSE LET r == create_table(c, tb, d, schema_.value, "table_name")
                  IN  IF r.raised # None
                      THEN Effect(r.raised, tb, r.db, log \o r.issued, <<>>, <<>>)
                      ELSE register_each(c, tb, r.db, Tail(elems), log \o r.issued)

\* Db.read_table_schemas(schema).  Its first statement reads schema.table_name,
\* which a tuple does not have.
read_table_schemas(c, tb, d, schema) ==
    LET table_name == IF schema.tuple THEN NoAttr
                      ELSE ClassTableName(Cls(schema.elems[1]))
    IN  IF table_name \in {NoAttr, MISSING}
        THEN Effect("AttributeError", tb, d, <<>>, <<>>, <<>>)
        ELSE register_each(c, (table_name :> schema.elems[1]) @@ tb, d, schema.elems, <<>>)

----------------------------------------------------------------------------
(* Db: the bound operations.  data_class is the record type the builder was *)
(* given, column_identifier its optional second argument.                   *)

\* self.tables[data_class.table_name]: the registered class, or NoAttr for a KeyError
Registered(tb, data_class) ==
    IF ClassTableName(data_class) \in DOMAIN tb
    THEN tb[ClassTableName(data_class)]
    ELSE NoAttr

\* an identifier that is the primary key whatever the builder was given
identifier_primary_key(cls, column_identifier) ==
    cls.primary_key

\* column_identifier if column_identifier is not None else data_cls.primary_key
identifier(cls, column_identifier) ==
    IF column_identifier # None THEN column_identifier ELSE cls.primary_key

\* an insert that leaves out the field called table_name, whatever its value
insert_fields_by_name(cls, data_cls) ==
    SelectSeq(cls.fields,
              LAMBDA f : GetAttr(cls, data_cls, f) # None /\ f # "table_name")

\* insert: the fields whose value is neither None nor equal to the table name
insert_fields(cls, data_cls) ==
    SelectSeq(cls.fields,
              LAMBDA f : /\ GetAttr(cls, data_cls, f) # None
                         /\ GetAttr(cls, data_cls, f) # GetAttr(cls, data_cls, "table_name"))

insert_sql(data_class, cls, data_cls) ==
    LET cols == insert_fields(cls, data_cls)
    IN  Stmt("INSERT", ClassTableName(data_class), cols, None,
             [i \in 1..Len(cols) |-> GetAttr(cls, data_cls, cols[i])])

\* the closure Db.insert returns
insert_record(c, tb, d, data_class, args, kwargs) ==
    IF Registered(tb, data_class) = NoAttr
    THEN Effect("KeyError", tb, d, <<>>, <<>>, <<>>)
    ELSE LET cls == Cls(Registered(tb, data_class))
             data_cls == Construct(cls, args, kwargs)
         IN  IF data_cls.raised # None
             THEN Effect(data_cls.raised, tb, d, <<>>, <<>>, <<>>)
             ELSE LET sql == insert_sql(data_class, cls, data_cls.value)
                      r == Execute(c, d, sql)
                  IN  Counted(Effect(r.raised, tb, r.db, IF c = None THEN <<>> ELSE <<sql>>,
                                     <<>>, data_cls.value), r.rowcount)

\* an update that binds the SET values and no value for its WHERE placeholder
update_sql_unbound(data_class, cls, data_cls, column_identifier, kwargs) ==
    LET cols == KwOrder(cls, kwargs)
    IN  Stmt("UPDATE", ClassTableName(data_class), cols,
             identifier(cls, column_identifier),
             [i \in 1..Len(cols) |-> kwargs[cols[i]]])

\* update: one SET clause per keyword argument, then the WHERE value, which
\* the code reads from the attribute username of the instance
update_sql(data_class, cls, data_cls, column_identifier, kwargs) ==
    LET cols == KwOrder(cls, kwargs)
    IN  Stmt("UPDATE", ClassTableName(data_class), cols,
             identifier(cls, column_identifier),
             [i \in 1..Len(cols) |-> kwargs[cols[i]]]
                 \o <<GetAttr(cls, data_cls, "username")>>)

\* the closure Db.update returns
update_record(c, tb, d, data_class, column_identifier, args, kwargs) ==
    IF Registered(tb, data_class) = NoAttr
    THEN Effect("KeyError", tb, d, <<>>, <<>>, <<>>)
    ELSE LET cls == Cls(Registered(tb, data_class))
             data_cls == Construct(cls, args, kwargs)
         IN  IF data_cls.raised # None
             THEN Effect(data_cls.raised, tb, d, <<>>, <<>>, <<>>)
             ELSE IF FieldIndex(cls, "username") = 0
             THEN Effect("AttributeError", tb, d, <<>>, <<>>, <<>>)
             ELSE IF identifier(cls, column_identifier) = NoAttr
             THEN Effect("AttributeError", tb, d, <<>>, <<>>, <<>>)
             ELSE LET sql == update_sql(data_class, cls, data_cls.value,
                                        column_identifier, kwargs)
                      r == Execute(c, d, sql)
                  IN  Counted(Effect(r.raised, tb, r.db, IF c = None THEN <<>> ELSE <<sql>>,
                                     <<>>, <<>>), r.rowcount)

\* find: SELECT * FROM {data_cls.table_name} WHERE {identifier} = ? bound to args[0]
find_sql(cls, data_cls, column_identifier, args) ==
    Stmt("SELECT", GetAttr(cls, data_cls, "table_name"), <<>>,
         identifier(cls, column_identifier), <<args[1]>>)

\* data_class(*results[0], *results[1:]): the first row's columns, then every
\* further row as one more positional argument
find_result(data_class, results) ==
    Construct(data_class,
              results[1] \o [i \in 1..(Len(results) - 1) |-> RowTuple],
              NoKwargs)

\* the closure Db.find returns
find_record(c, tb, d, data_class, column_identifier, args, kwargs) ==
    IF Registered(tb, data_class) = NoAttr
    THEN Effect("KeyError", tb, d, <<>>, <<>>, <<>>)
    ELSE LET cls == Cls(Registered(tb, data_class))
             data_cls == Construct(cls, args, kwargs)
         IN  IF data_cls.raised # None
             THEN Effect(data_cls.raised, tb, d, <<>>, <<>>, <<>>)
             ELSE IF identifier(cls, column_identifier) = NoAttr
             THEN Effect("AttributeError", tb, d, <<>>, <<>>, <<>>)
             ELSE IF args = <<>>
             THEN Effect("IndexError", tb, d, <<>>, <<>>, <<>>)
             ELSE LET sql == find_sql(cls, data_cls.value, column_identifier, args)
                      r == Execute(c, d, sql)
                      log == IF c = None THEN <<>> ELSE <<sql>>
                  IN  IF r.raised # None
                      THEN Effect(r.raised, tb, d, log, <<>>, <<>>)
                      ELSE IF r.rows = <<>>
                      THEN Effect("IndexError", tb, d, log, <<>>, <<>>)
                      ELSE Effect(find_result(data_class, r.rows).raised, tb, d, log,
                                  find_result(data_class, r.rows).value, <<>>)

\* a delete that ignores column_identifier and always names the primary key
delete_sql_primary_key(cls, data_cls, column_identifier, args) ==
    Stmt("DELETE", GetAttr(cls, data_cls, "table_name"), <<>>,
         cls.primary_key, <<args[1]>>)

\* delete: DELETE FROM {data_cls.table_name} WHERE {identifier} = ? bound to args[0]
delete_sql(cls, data_cls, column_identifier, args) ==
    Stmt("DELETE", GetAttr(cls, data_cls, "table_name"), <<>>,
         identifier(cls, column_identifier), <<args[1]>>)

\* the closure Db.delete returns
delete_record(c, tb, d, data_class, column_identifier, args, kwargs) ==
    IF Registered(tb, data_class) = NoAttr
    THEN Effect("KeyError", tb, d, <<>>, <<>>, <<>>)
    ELSE LET cls == Cls(Registered(tb, data_class))
             data_cls == Construct(cls, args, kwargs)
         IN  IF data_cls.raised # None
             THEN Effect(data_cls.raised, tb, d, <<>>, <<>>, <<>>)
             ELSE IF identifier(cls, column_identifier) = NoAttr
             THEN Effect("AttributeError", tb, d, <<>>, <<>>, <<>>)
             ELSE IF args = <<>>
             THEN Effect("IndexError", tb, d, <<>>, <<>>, <<>>)
             ELSE LET sql == delete_sql(cls, data_cls.value, column_identifier, args)
                      r == Execute(c, d, sql)
                  IN  Counted(Effect(r.raised, tb, r.db, IF c = None THEN <<>> ELSE <<sql>>,
                                     <<>>, <<>>), r.rowcount)

----------------------------------------------------------------------------
(* Db: connection lifecycle *)

\* Db.connect: self.conn = await aiosqlite.connect(self.db_path)
connect(c) == "open"

\* Db.close: if self.conn is not None: await self.conn.close()
close(c) == IF c = None THEN None ELSE "closed"

----------------------------------------------------------------------------
(* The state machine *)

\* the type mapper was not called yet
NotCalled == "<not called>"
NoCall ==
    [data |-> Plain("int"), ret |-> Ret(NotCalled), types_ret |-> Ret(NotCalled),
     calls |-> 0]

\* a class no set_key decorator was applied to; given lists the key
\* annotations it was decorated with so far, in the order they were applied
Undecorated ==
    [primary_key |-> NoAttr, unique_key |-> NoAttr, foreign_keys |-> NoAttr,
     given |-> <<>>]

\* the bound operations that change the database
Changing == {"insert", "update", "delete"}

Invocations == 1..MaxInvocations

\* no bound operation was invoked: nothing executed, nothing durable
NoInvocation ==
    [pc |-> [i \in Invocations |-> "idle"],
     kind |-> [i \in Invocations |-> None],
     pending |-> {},
     durable |-> {}]

\* Db.__init__: no connection, an empty registry; the file is new
DbInit ==
    /\ conn = None
    /\ tables = <<>>
    /\ db = <<>>
    /\ issued = <<>>
    /\ outcome = Outcome("__init__", None, None, <<>>, None, <<>>, <<>>, 0)
    /\ origin = None
    /\ live = {}
    /\ txn = NoInvocation

Init ==
    /\ DbInit
    /\ mapped = NoCall
    /\ keyed = Undecorated

\* self.conn = await aiosqlite.connect(...): the connection the handle held
\* stays as it was; if it was open, it is open still and nothing refers to it
Rebind(op) ==
    /\ conn' = connect(conn)
    /\ origin' = op
    /\ live' = IF conn = "open" THEN live \cup {<<origin, op>>} ELSE live
    /\ issued' = <<>>
    /\ outcome' = Outcome(op, None, None, <<>>, None, <<>>, <<>>, 0)
    /\ UNCHANGED <<tables, db, aside>>

Release(op) ==
    /\ conn' = close(conn)
    /\ origin' = None
    /\ issued' = <<>>
    /\ outcome' = Outcome(op, None, None, <<>>, None, <<>>, <<>>, 0)
    /\ UNCHANGED <<tables, db, live, aside>>

Connect == Rebind("connect")

Close == Release("close")

\* Db.__aenter__: await self.connect(); return self
AEnter == Rebind("__aenter__")

\* Db.__aexit__: await self.close()
AExit == Release("__aexit__")

Apply(op, cls, ci, args, r) ==
    /\ tables' = r.tables
    /\ db' = r.db
    /\ issued' = r.issued
    /\ outcome' = Outcome(op, cls, ci, args, r.raised, r.ret, r.record, r.rowcount)
    /\ UNCHANGED <<conn, origin, live, aside>>

ReadTableSchemas ==
    \E schema \in Schemas :
        Apply("read_table_schemas",
              IF schema.tuple THEN "tuple" ELSE schema.elems[1], None, <<>>,
              read_table_schemas(conn, tables, db, schema))

\* rows stored in the tables named in S
RECURSIVE RowCount(_, _)
RowCount(d, S) ==
    IF S = {} THEN 0
    ELSE LET t == CHOOSE x \in S : TRUE
         IN  Len(d[t].rows) + RowCount(d, S \ {t})

\* the database holds at most MaxRows rows
HasRoom == RowCount(db, DOMAIN db) < MaxRows

Insert ==
    \E c \in Classes :
        \E args \in InsertArgs(Cls(c)) :
            \E kwargs \in Kwargs(Cls(c), args) :
                /\ HasRoom
                /\ Apply("insert", c, None, args,
                         insert_record(conn, tables, db, Cls(c), args, kwargs))

Update ==
    \E c \in Classes :
        \E ci \in ColumnIdentifiers(Cls(c)) :
            \E args \in IdentArgs(Cls(c), ci) :
                \E kwargs \in Kwargs(Cls(c), args) :
                    Apply("update", c, ci, args,
                          update_record(conn, tables, db, Cls(c), ci, args, kwargs))

Find ==
    \E c \in Classes :
        \E ci \in ColumnIdentifiers(Cls(c)) :
            \E args \in IdentArgs(Cls(c), ci) :
                Apply("find", c, ci, args,
                      find_record(conn, tables, db, Cls(c), ci, args, NoKwargs))

Delete ==
    \E c \in Classes :
        \E ci \in ColumnIdentifiers(Cls(c)) :
            \E args \in IdentArgs(Cls(c), ci) :
                Apply("delete", c, ci, args,
                      delete_record(conn, tables, db, Cls(c), ci, args, NoKwargs))

Next ==
    \/ Connect
    \/ Close
    \/ ReadTableSchemas
    \/ Insert
    \/ Update
    \/ Find
    \/ Delete

Spec == Init /\ [][Next]_vars

----------------------------------------------------------------------------
(* The facade used as an async context manager: the scope is entered and    *)
(* left, and its body connects, closes and registers record types.          *)

\* what a scope body registers: a record type, or the tuple of the first two
BodySchemas ==
    {[tuple |-> FALSE, elems |-> <<c>>] : c \in {"Users", "Signals", "Probes"}}
    \cup {[tuple |-> TRUE, elems |-> <<"Users", "Accounts">>]}

RegisterInScope ==
    \E schema \in BodySchemas :
        Apply("read_table_schemas",
              IF schema.tuple THEN "tuple" ELSE schema.elems[1], None, <<>>,
              read_table_schemas(conn, tables, db, schema))

ScopeNext ==
    \/ AEnter
    \/ AExit
    \/ Connect
    \/ Close
    \/ RegisterInScope

ScopeSpec == Init /\ [][ScopeNext]_vars

----------------------------------------------------------------------------
(* The facade with a record type whose table name holds a space *)

RegisterSample ==
    Apply("read_table_schemas", "Sample", None, <<>>,
          read_table_schemas(conn, tables, db, [tuple |-> FALSE, elems |-> <<"Sample">>]))

InsertSample ==
    \E args \in InsertArgs(Sample) :
        \E kwargs \in Kwargs(Sample, args) :
            /\ HasRoom
            /\ Apply("insert", "Sample", None, args,
                     insert_record(conn, tables, db, Sample, args, kwargs))

UpdateSample ==
    \E ci \in ColumnIdentifiers(Sample) :
        \E args \in IdentArgs(Sample, IF ci = None THEN "username" ELSE ci) :
            \E kwargs \in Kwargs(Sample, args) :
                Apply("update", "Sample", ci, args,
                      update_record(conn, tables, db, Sample, ci, args, kwargs))

\* find and delete construct the record from their arguments: they are given
\* both fields of Sample, which have no defaults
FindSample ==
    \E ci \in ColumnIdentifiers(Sample) :
        \E args \in IdentArgs(Sample, "username") \ {<<>>} :
            \E credits \in Domain(Sample.types[2]) :
                Apply("find", "Sample", ci, args,
                      find_record(conn, tables, db, Sample, ci, args, [credits |-> credits]))

DeleteSample ==
    \E ci \in ColumnIdentifiers(Sample) :
        \E args \in IdentArgs(Sample, "username") \ {<<>>} :
            \E credits \in Domain(Sample.types[2]) :
                Apply("delete", "Sample", ci, args,
                      delete_record(conn, tables, db, Sample, ci, args, [credits |-> credits]))

NamesNext ==
    \/ Connect
    \/ Close
    \/ RegisterSample
    \/ InsertSample
    \/ UpdateSample
    \/ FindSample
    \/ DeleteSample

NamesSpec == Init /\ [][NamesNext]_vars

----------------------------------------------------------------------------
(* The type mapper of utils/util_types.py, called on one input *)

TypeNames ==
    {"int", "str", "float", "bool", "bytes", "bytearray", "list", "tuple",
     "set", "dict", "complex", "NoneType"}

\* a class, None, an instance (1j, "hello"), or a union of classes
MapperInputs ==
    {Plain(t) : t \in TypeNames \cup {None, "1j", "hello"}}
    \cup {Union(a, b) : a, b \in TypeNames}
    \cup {Union3("int", "str", "NoneType")}

TypesInit ==
    /\ DbInit
    /\ keyed = Undecorated
    /\ mapped \in {[NoCall EXCEPT !.data = d] : d \in MapperInputs}

MapType ==
    /\ mapped.calls < MaxCalls
    /\ mapped' = [mapped EXCEPT !.ret = util_types_py_to_sql_type(mapped.data),
                                !.types_ret = py_to_sql_type(mapped.data),
                                !.calls = @ + 1]
    /\ UNCHANGED <<facade, keyed, txn>>

TypesNext == MapType

TypesSpec == TypesInit /\ [][TypesNext]_vars

----------------------------------------------------------------------------
(* The set_key decorator of utils/table.py, applied to one class *)

Columns == {"name", "value"}

ForeignKeys == {ForeignKey("name", "accounts"), ForeignKey("value", "users")}

\* what set_key accepts: a PrimaryKey, a UniqueKey, a ForeignKey, or a tuple
\* of ForeignKeys
KeyArgs ==
    {PrimaryKey(c) : c \in Columns} \cup {UniqueKey(c) : c \in Columns}
    \cup ForeignKeys
    \cup {TupleOf(<<a, b>>) : a, b \in ForeignKeys}

KeysInit ==
    /\ DbInit
    /\ mapped = NoCall
    /\ keyed = Undecorated

\* @set_key(args) on the class: one application of the decorator
SetKey ==
    \E n \in 1..(MaxKeys - Len(keyed.given)) :
        \E args \in [1..n -> KeyArgs] :
            /\ keyed' = [set_key(args, keyed) EXCEPT !.given = keyed.given \o args]
            /\ UNCHANGED <<facade, mapped, txn>>

KeysNext == SetKey

KeysSpec == KeysInit /\ [][KeysNext]_vars

----------------------------------------------------------------------------
(* Invocations of insert, update and delete that interleave on one connection.
   Each invocation is two awaits on self.conn: execute, then commit.  The
   connection has one transaction: a statement executed joins it, and commit
   makes durable everything in it, whichever invocation executed it.  A
   change is named by the invocation that executed it. *)

\* await self.conn.execute(sql, ...) of invocation i, a call of insert's,
\* update's or delete's bound coroutine
TxnExecute(i) ==
    \E k \in Changing :
        /\ conn = "open"
        /\ txn.pc[i] = "idle"
        /\ txn' = [txn EXCEPT !.pc[i] = "executed", !.kind[i] = k,
                              !.pending = @ \cup {i}]
        /\ UNCHANGED <<facade, mapped, keyed>>

\* await self.conn.commit() of invocation i; durable pairs each change with
\* the invocation whose commit made it durable
TxnCommit(i) ==
    /\ conn = "open"
    /\ txn.pc[i] = "executed"
    /\ txn' = [txn EXCEPT !.pc[i] = "committed",
                          !.durable = @ \cup {<<c, i>> : c \in txn.pending},
                          !.pending = {}]
    /\ UNCHANGED <<facade, mapped, keyed>>

\* invocation i is cancelled, or fails, after its statement was executed and
\* before its commit line: no handler rolls the statement back
TxnCancel(i) ==
    /\ txn.pc[i] = "executed"
    /\ txn' = [txn EXCEPT !.pc[i] = "cancelled"]
    /\ UNCHANGED <<facade, mapped, keyed>>

\* the first connect of the facade: the invocations share its connection
TxnConnect == conn = None /\ Connect

TxnNext ==
    \/ TxnConnect
    \/ \E i \in Invocations : TxnExecute(i)
    \/ \E i \in Invocations : TxnCommit(i)
    \/ \E i \in Invocations : TxnCancel(i)

TxnSpec == Init /\ [][TxnNext]_vars

----------------------------------------------------------------------------
(* Properties *)

\* the record type cls is registered under its table name and its table exists
Provisioned(tb, d, cls) ==
    /\ ClassTableName(cls) \in DOMAIN tb
    /\ tb[ClassTableName(cls)] = cls.cls
    /\ ClassTableName(cls) \in DOMAIN d

\* the rows of the table of cls
Rows(d, cls) == d[ClassTableName(cls)].rows

\* C1: round trip.  A find by primary key that directly follows a successful
\* insert of a record, given that record's primary-key value, returns a record
\* equal in every field to the inserted one.
C1_RoundTrip ==
    [][(/\ outcome.op = "insert"
        /\ outcome.raised = None
        /\ outcome'.op = "find"
        /\ outcome'.cls = outcome.cls
        /\ outcome'.ci = None
        /\ outcome'.arg0 = GetAttr(Cls(outcome.cls), outcome.record,
                                   Cls(outcome.cls).primary_key))
       => (outcome'.raised = None /\ outcome'.ret = outcome.record)]_vars

\* C2: the scenario.  With Users registered and ("alice", 5) the stored row
\* after an insert, update("alice", value=9) makes the row ("alice", 9) and a
\* following find("alice") returns a record whose value is 9.
C2_UpdateScenario ==
    (/\ conn = "open"
     /\ Provisioned(tables, db, Users)
     /\ outcome.op = "insert"
     /\ outcome.raised = None
     /\ Rows(db, Users) = <<(<<"alice", "5">>)>>)
    => LET u == update_record(conn, tables, db, Users, None, <<"alice">>, [value |-> "9"])
           f == find_record(conn, u.tables, u.db, Users, None, <<"alice">>, NoKwargs)
       IN  /\ Rows(u.db, Users) = <<(<<"alice", "9">>)>>
           /\ f.raised = None
           /\ GetAttr(Users, f.ret, "value") = "9"

\* C3: whenever update is invoked on a registered record type with a first
\* positional argument, it sends an UPDATE statement whose final bound
\* parameter is that argument.
C3_UpdateBindsFirstArgument ==
    (/\ outcome.op = "update"
     /\ outcome.arg0 # NoArg
     /\ conn = "open"
     /\ outcome.raised \notin {"KeyError", "TypeError"})
    => /\ issued # <<>>
       /\ issued[1].kind = "UPDATE"
       /\ issued[1].params[Len(issued[1].params)] = outcome.arg0

\* the value a row of the table of cls holds in column col
Cell(d, cls, row, col) == row[ColIndex(d[ClassTableName(cls)], col)]

\* the columns an update step named: those of the SET list it sent
Named(log) == {log[1].cols[i] : i \in 1..Len(log[1].cols)}

\* C4: update partial semantics.  An update step invoked with identifier value
\* X (its first positional argument) leaves every row whose identifying column
\* is not X unchanged, and in the rows it matches leaves every column it did
\* not name unchanged.
C4_UpdatePartial ==
    [][(outcome'.op = "update" /\ outcome'.arg0 # NoArg)
       => LET cls == Cls(outcome'.cls)
              col == identifier(cls, outcome'.ci)
          IN  /\ DOMAIN db' = DOMAIN db
              /\ \A t \in DOMAIN db :
                    /\ Len(db'[t].rows) = Len(db[t].rows)
                    /\ \A r \in 1..Len(db[t].rows) :
                          IF t = ClassTableName(cls) /\ issued' # <<>>
                             /\ Cell(db, cls, db[t].rows[r], col) = outcome'.arg0
                          THEN \A i \in 1..Len(db[t].cols) :
                                  db[t].cols[i] \notin Named(issued')
                                      => db'[t].rows[r][i] = db[t].rows[r][i]
                          ELSE db'[t].rows[r] = db[t].rows[r]]_vars

\* C5: no update step, whatever its arguments, changes the value a row holds
\* in the identifying column.
C5_UpdateKeepsIdentifier ==
    [][(outcome'.op = "update" /\ Provisioned(tables, db, Cls(outcome'.cls)))
       => LET cls == Cls(outcome'.cls)
              col == identifier(cls, outcome'.ci)
          IN  /\ Len(Rows(db', cls)) = Len(Rows(db, cls))
              /\ \A r \in 1..Len(Rows(db, cls)) :
                    Cell(db', cls, Rows(db', cls)[r], col)
                        = Cell(db, cls, Rows(db, cls)[r], col)]_vars

\* C6: delete is exact.  A delete step invoked with identifier value X on a
\* registered record type whose table exists, over an open connection,
\* completes without error, removes exactly the rows whose identifying column
\* equals X (none when none matches) and leaves every other row and table
\* unchanged.
C6_DeleteExact ==
    [][(/\ outcome'.op = "delete"
        /\ outcome'.arg0 # NoArg
        /\ conn = "open"
        /\ Provisioned(tables, db, Cls(outcome'.cls)))
       => LET cls == Cls(outcome'.cls)
              col == identifier(cls, outcome'.ci)
              t == ClassTableName(cls)
          IN  /\ outcome'.raised = None
              /\ DOMAIN db' = DOMAIN db
              /\ \A u \in DOMAIN db \ {t} : db'[u] = db[u]
              /\ Rows(db', cls)
                    = SelectSeq(Rows(db, cls),
                                LAMBDA row : Cell(db, cls, row, col) # outcome'.arg0)]_vars

\* a delete has removed a row and left another one in the same table
C6_Witness ==
    /\ outcome.op = "delete"
    /\ outcome.raised = None
    /\ outcome.rowcount >= 1
    /\ Rows(db, Cls(outcome.cls)) # <<>>

\* C7: a find that matches no row returns a no-such-record signal: it raises
\* nothing.
C7_FindNotFound ==
    (/\ outcome.op = "find"
     /\ outcome.arg0 # NoArg
     /\ conn = "open"
     /\ Provisioned(tables, db, Cls(outcome.cls))
     /\ \A r \in 1..Len(Rows(db, Cls(outcome.cls))) :
           Cell(db, Cls(outcome.cls), Rows(db, Cls(outcome.cls))[r],
                identifier(Cls(outcome.cls), outcome.ci)) # outcome.arg0)
    => outcome.raised = None

\* C8: idempotent schema creation.  Registering, over an open connection, a
\* record type that is already registered and whose table exists raises
\* nothing and leaves the database as it was.
C8_IdempotentRegistration ==
    [][(/\ outcome'.op = "read_table_schemas"
        /\ outcome'.cls \in Classes
        /\ conn = "open"
        /\ Provisioned(tables, db, Cls(outcome'.cls)))
       => (outcome'.raised = None /\ db' = db)]_vars

\* a record type was registered again while its table held a row
C8_Witness ==
    /\ outcome.op = "read_table_schemas"
    /\ outcome.cls \in Classes
    /\ outcome.raised = None
    /\ conn = "open"
    /\ Provisioned(tables, db, Cls(outcome.cls))
    /\ Rows(db, Cls(outcome.cls)) # <<>>
    /\ \E i \in 1..Len(issued) : issued[i].kind = "CREATE"

\* C9: registration called with a tuple of record types, over an open
\* connection, returns with a table for every record type of the tuple and
\* with the registry mapping each table name to its record type.
C9_TupleRegistration ==
    (outcome.op = "read_table_schemas" /\ outcome.cls = "tuple" /\ conn = "open")
    => /\ outcome.raised = None
       /\ \A c \in Classes : Provisioned(tables, db, Cls(c))

\* C10: a registration step issues the create-table statement for a table
\* only if the catalog held no table of that name.
C10_CreateOnlyIfAbsent ==
    [][outcome'.op = "read_table_schemas"
       => \A i \in 1..Len(issued') :
             issued'[i].kind = "CREATE" => issued'[i].table \notin DOMAIN db]_vars

----------------------------------------------------------------------------
(* Properties of the type mapper, the lifecycle and the error paths *)

\* the types the mapper supports and the token of each
SupportedTypes ==
    {"int", "str", "float", "bool", "bytes", "bytearray", "list", "tuple",
     "set", "dict", None}

TokenOf(t) ==
    CASE t = "int" -> "INT"
      [] t = "str" -> "VARCHAR"
      [] t = "float" -> "FLOAT"
      [] t = "bool" -> "BOOLEAN"
      [] t = None -> "NULL"
      [] OTHER -> "TEXT"

\* an optional wrapper: a union of two arms, one of them NoneType, the other a
\* supported class
OptionalOf(data) ==
    IF data.union /\ Len(data.args) = 2 /\ data.args[1] = "NoneType"
    THEN data.args[2]
    ELSE IF data.union /\ Len(data.args) = 2 /\ data.args[2] = "NoneType"
    THEN data.args[1]
    ELSE NoAttr

C12_HandleClearedOnClose ==
    outcome.op \in {"close", "__aexit__"} => conn = None

\* C13: after the async with scope is left, whatever its body did and however
\* it ended, no connection that a scope entry opened is open: not the one the
\* handle holds, and none that the handle held until the body called connect.
C13_ScopeReleasesConnection ==
    outcome.op = "__aexit__"
    => /\ conn # "open"
       /\ <<"__aenter__", "connect">> \notin live

\* C14: an insert, update, find or delete invoked on a registered record type
\* with well-formed arguments while the facade is not connected fails, and not
\* by dereferencing the missing connection (an AttributeError on None).
C14_NotConnectedError ==
    (/\ outcome.op \in {"insert", "update", "find", "delete"}
     /\ conn # "open"
     /\ Registered(tables, Cls(outcome.cls)) # NoAttr
     /\ outcome.op # "insert" => outcome.arg0 # NoArg
     /\ outcome.op = "update" => FieldIndex(Cls(outcome.cls), "username") # 0
     /\ outcome.raised # "TypeError")
    => outcome.raised \notin {None, "AttributeError"}

\* C15: no UPDATE statement with an empty SET list is sent to the connection.
C15_NoEmptyUpdate ==
    \A i \in 1..Len(issued) :
        issued[i].kind = "UPDATE" => issued[i].cols # <<>>

\* the record type has a field whose declared type is outside the supported set
HasUnsupportedField(cls) ==
    \E i \in 1..Len(cls.types) :
        LET data == cls.types[i]
        IN  ~(\/ ~data.union /\ data.args[1] \in SupportedTypes
              \/ OptionalOf(data) \in SupportedTypes \ {None})

\* C16: a registration, over an open connection, of a record type with a field
\* of an unsupported type raises the unsupported-data-type error (ValueError)
\* and leaves the database without a table for that record type.
C16_UnsupportedTypeAborts ==
    (/\ outcome.op = "read_table_schemas"
     /\ outcome.cls \in Declared
     /\ conn = "open"
     /\ HasUnsupportedField(Cls(outcome.cls)))
    => /\ outcome.raised = "ValueError"
       /\ ClassTableName(Cls(outcome.cls)) \notin DOMAIN db

\* the key annotations of a kind among those the class was given, in order
GivenOf(kind) == SelectSeq(keyed.given, LAMBDA arg : arg.kind = kind)

\* C17: key annotations are first-wins.  After any sequence of set_key
\* applications, primary_key is the column of the first PrimaryKey the class
\* was given and unique_key the column of the first UniqueKey; without one the
\* attribute is not set.
C17_FirstWins ==
    /\ keyed.primary_key = IF GivenOf("PrimaryKey") = <<>> THEN NoAttr
                           ELSE GivenOf("PrimaryKey")[1].column
    /\ keyed.unique_key = IF GivenOf("UniqueKey") = <<>> THEN NoAttr
                          ELSE GivenOf("UniqueKey")[1].column

\* the class was given two different PrimaryKeys and two different UniqueKeys
C17_Witness ==
    /\ Len(GivenOf("PrimaryKey")) >= 2
    /\ GivenOf("PrimaryKey")[1].column # GivenOf("PrimaryKey")[2].column
    /\ keyed.primary_key = GivenOf("PrimaryKey")[1].column
    /\ Len(keyed.given) >= 3

\* the ForeignKeys the class was given, one by one or inside tuples, in order
RECURSIVE DeclaredForeignKeys(_)
DeclaredForeignKeys(given) ==
    IF given = <<>> THEN <<>>
    ELSE (CASE Head(given).kind = "ForeignKey" -> <<Head(given)>>
            [] Head(given).kind = "tuple" -> Head(given).elems
            [] OTHER -> <<>>)
         \o DeclaredForeignKeys(Tail(given))

\* C18: after set_key was applied with foreign keys given one by one or as a
\* tuple of ForeignKeys, the elements of foreign_keys are the ForeignKeys that
\* were declared, each with its key and table, in declaration order.
C18_ForeignKeysFlat ==
    foreign_keys_of(keyed) = DeclaredForeignKeys(keyed.given)

\* C19: the INSERT statement of an insert lists exactly the fields of the
\* record it constructed whose value is neither None nor equal to the table
\* name, in field-declaration order, and binds to the i-th placeholder the
\* value of the i-th listed field; it is sent whenever the record was
\* constructed and there is a connection.
C19_InsertColumns ==
    (/\ outcome.op = "insert"
     /\ outcome.raised \notin {"KeyError", "TypeError"}
     /\ conn # None)
    => LET cls == Cls(outcome.cls)
           value(f) == outcome.record[FieldIndex(cls, f)]
           listed == SelectSeq(cls.fields,
                               LAMBDA f : value(f) \notin {None, ClassTableName(cls)})
       IN  /\ Len(issued) = 1
           /\ issued[1].kind = "INSERT"
           /\ issued[1].cols = listed
           /\ issued[1].params = [i \in 1..Len(listed) |-> value(listed[i])]

\* an insert stored a record whose first field holds the table name: only
\* the second field was listed
C19_Witness ==
    /\ outcome.op = "insert"
    /\ outcome.raised = None
    /\ outcome.record = <<"users", "5", "users">>
    /\ issued[1].cols = <<"value">>
    /\ issued[1].params = <<"5">>

\* C20: the DDL a registration sends lists one <<field, token>> entry per
\* declared field in declaration order, table_name left out, then PRIMARY KEY
\* (column) if a primary key is declared, then UNIQUE (column) if a unique key
\* is declared; for Users {name: str, value: int | None} with primary key
\* name the entries are name VARCHAR, value INT, PRIMARY KEY (name).
C20_DdlEntries ==
    \A i \in 1..Len(issued) :
        (outcome.op = "read_table_schemas" /\ issued[i].kind = "CREATE")
        => LET cls == Cls(CHOOSE c \in Declared : ClassTableName(Cls(c)) = issued[i].table)
           IN  /\ [j \in 1..Len(issued[i].cols) |-> issued[i].cols[j][1]] = DataFields(cls)
               /\ issued[i].params = key_clauses(cls)
               /\ issued[i].table = "users"
                     => /\ issued[i].cols = <<(<<"name", "VARCHAR">>), (<<"value", "INT">>)>>
                        /\ issued[i].params[1] = <<"PRIMARY KEY", "name">>

----------------------------------------------------------------------------
(* Properties of the statements, the registry and the connections *)

\* the ? placeholders of a statement: one per column of an INSERT, one per SET
\* clause of an UPDATE and one for its WHERE, one for the WHERE of a SELECT or
\* a DELETE
Placeholders(s) ==
    CASE s.kind = "INSERT" -> Len(s.cols)
      [] s.kind = "UPDATE" -> Len(s.cols) + 1
      [] OTHER -> 1

\* C21: in every statement an insert, update, find or delete sends, the text
\* holds identifiers only (the table name and field names of the record type)
\* and the number of ? placeholders equals the number of bound values.
C21_BoundParametersOnly ==
    outcome.op \in {"insert", "update", "find", "delete"}
    => \A i \in 1..Len(issued) :
          LET s == issued[i]
              cls == Cls(outcome.cls)
          IN  /\ Len(s.params) = Placeholders(s)
              /\ s.table = ClassTableName(cls)
              /\ \A j \in 1..Len(s.cols) : FieldIndex(cls, s.cols[j]) # 0
              /\ s.kind # "INSERT" => FieldIndex(cls, s.where) # 0

\* an update with two SET clauses was executed: three placeholders, three values
C21_Witness ==
    /\ outcome.op = "update"
    /\ outcome.raised = None
    /\ Len(issued) = 1
    /\ Len(issued[1].cols) = 2
    /\ Len(issued[1].params) = 3

\* C22: when several rows match the identifier, find raises nothing and
\* returns the record built from the columns of the first matching row (and
\* the default of table_name); the other matching rows leave no trace in it.
C22_FindFirstRowOnly ==
    (/\ outcome.op = "find"
     /\ outcome.arg0 # NoArg
     /\ conn = "open"
     /\ Provisioned(tables, db, Cls(outcome.cls)))
    => LET cls == Cls(outcome.cls)
           col == IF outcome.ci # None THEN outcome.ci ELSE cls.primary_key
           matching == SelectSeq(Rows(db, cls),
                                 LAMBDA row : Cell(db, cls, row, col) = outcome.arg0)
       IN  Len(matching) >= 2
           => /\ outcome.raised = None
              /\ outcome.ret = matching[1] \o <<ClassTableName(cls)>>

\* C23: the column in the WHERE clause of an update, find or delete is the
\* column_identifier the builder was given, and the declared primary key of
\* the record type when it was given none.
C23_WhereColumn ==
    outcome.op \in {"update", "find", "delete"}
    => \A i \in 1..Len(issued) :
          issued[i].where = IF outcome.ci # None THEN outcome.ci
                            ELSE Cls(outcome.cls).primary_key

\* a find built with column_identifier username returned a record
C23_Witness ==
    /\ outcome.op = "find"
    /\ outcome.ci = "username"
    /\ outcome.raised = None
    /\ outcome.ret # <<>>
    /\ issued[1].where = "username"

\* C24: the table name in every INSERT, UPDATE, SELECT and DELETE statement
\* sent for a registered record type is the table name of the CREATE TABLE
\* statement make_schema produced for it, also when the declared table name
\* holds a space.
C24_SameTableName ==
    (/\ outcome.op \in {"insert", "update", "find", "delete"}
     /\ Registered(tables, Cls(outcome.cls)) # NoAttr)
    => \A i \in 1..Len(issued) :
          LET cls == Cls(outcome.cls)
          IN  issued[i].table = make_schema(ClassTableName(cls), cls).value.table_name

\* C25: a registration that raises leaves the registry exactly as it was
\* before the call.
C25_RegistryUnchangedOnError ==
    [][(outcome'.op = "read_table_schemas" /\ outcome'.raised # None)
       => tables' = tables]_vars

\* the connections the facade opened that are open: the one the handle holds
\* and those it has let go of
OpenConnections ==
    Cardinality(live) + (IF conn = "open" THEN 1 ELSE 0)

\* C26: over every sequence of connect, close, scope entry and scope exit, at
\* most one connection the facade opened is open, and none is open without
\* the handle referring to it.
C26_SingleConnection ==
    /\ OpenConnections <= 1
    /\ live = {}

\* C28: the mapper of utils/types/types.py and the mapper of
\* utils/util_types.py end the same way on every declared type: the same
\* token, or the same error.
C28_MappersAgree ==
    mapped.calls >= 1 => mapped.types_ret = mapped.ret

\* C27: a change executed by an invocation of insert, update or delete is
\* made durable by that invocation's own commit and by no other, however the
\* invocations interleave and whichever of them is cancelled or fails between
\* its execute and its commit.
C27_OwnCommitOnly ==
    \A d \in txn.durable : d[1] = d[2]

====
